---- MODULE Spec2Model ----
(***************************************************************************)
(* The 8-puzzle A* solver: board states (src/src/state.py), the            *)
(* solvability test (src/src/utils.py), the heuristics                     *)
(* (src/src/heuristics.py) and the search loop (src/src/search.py).        *)
(*                                                                         *)
(* A PuzzleState is represented by its `tiles` tuple.  Python indexes from *)
(* 0 and TLA+ sequences from 1: At(t, i) reads Python's t[i].              *)
(***************************************************************************)
EXTENDS Integers, Sequences, FiniteSets, TLC

(***************************************************************************)
(* Bounds of the exploration (not program constants).                      *)
(***************************************************************************)
\* a_star is started from every board at most MaxScramble moves from GOAL
\* (and from the boards of DeepStarts)
MaxScramble == 6
\* a run is followed for MaxExpand expansions (this cuts the runs from the
\* unsolvable start, which would close 9!/2 boards)
MaxExpand == 400
\* walks with a step counter are followed for MaxWalk moves
MaxWalk == 6
\* two invocations side by side are started from the boards at most MaxPair
\* moves from GOAL
MaxPair == 2
\* a_star with a caller's own heuristic is started from the boards at most
\* MaxAny moves from GOAL
MaxAny == 4
\* random_solvable_state is called with max_attempts up to MaxAttempts
MaxAttempts == 3

(***************************************************************************)
(* src/src/state.py: board geometry                                        *)
(***************************************************************************)
N == 3

GOAL == <<1, 2, 3, 4, 5, 6, 7, 8, 0>>

\* Python's t[i] and t.index(v), both 0-based
At(t, i) == t[i + 1]

index(t, v) == (CHOOSE k \in 1..Len(t) : t[k] = v /\ \A j \in 1..(k - 1) : t[j] # v) - 1

\* set(t)
SetOf(t) == {t[k] : k \in 1..Len(t)}

INDEX_TO_RC == [i \in 0..(N * N - 1) |-> <<i \div N, i % N>>]

\* variant: tile v is taken to belong at index v
GOAL_POSByValue == [v \in SetOf(GOAL) |-> INDEX_TO_RC[v]]

GOAL_POS == [v \in SetOf(GOAL) |-> INDEX_TO_RC[index(GOAL, v)]]

(***************************************************************************)
(* PuzzleState.__post_init__: the two checks that raise ValueError         *)
(***************************************************************************)
\* variant: only the length is checked
__post_init__lengthOnly(tiles) ==
    IF Len(tiles) # N * N THEN "ValueError" ELSE "ok"

__post_init__(tiles) ==
    IF Len(tiles) # N * N THEN "ValueError"
    ELSE IF SetOf(tiles) # 0..(N * N - 1) THEN "ValueError"
    ELSE "ok"

\* what a rejected construction leaves behind: no state
NoState == <<>>

\* PuzzleState(tiles): the dataclass constructor followed by __post_init__
PuzzleState(tiles) ==
    IF __post_init__(tiles) = "ok"
    THEN [raised |-> "none", state |-> tiles]
    ELSE [raised |-> "ValueError", state |-> NoState]

\* variant: the goal is taken to have the blank in the first cell
is_goalBlankFirst(s) == s = <<0, 1, 2, 3, 4, 5, 6, 7, 8>>

is_goal(s) == s = GOAL

_swap(t, i, j) ==
    IF i = j THEN t
    ELSE [t EXCEPT ![i + 1] = At(t, j), ![j + 1] = At(t, i)]

\* variant: the Left move also goes one row up
movesDiagonal == << <<-1, 0, "Up">>, <<1, 0, "Down">>, <<-1, -1, "Left">>, <<0, 1, "Right">> >>

\* variant: the table lists the horizontal moves first
movesLeftFirst == << <<0, -1, "Left">>, <<0, 1, "Right">>, <<-1, 0, "Up">>, <<1, 0, "Down">> >>

\* the move table of neighbors(): (DeltaRow, DeltaCol, action)
moves == << <<-1, 0, "Up">>, <<1, 0, "Down">>, <<0, -1, "Left">>, <<0, 1, "Right">> >>

IsEntry(x) == x # <<>>

\* PuzzleState.neighbors(): the list of (next_state, action, cost), in the
\* order of the move table, of the moves that stay inside the grid
neighbors(s) ==
    LET zero_idx == index(s, 0)
        zr == INDEX_TO_RC[zero_idx][1]
        zc == INDEX_TO_RC[zero_idx][2]
        try == [k \in 1..Len(moves) |->
                  LET nr == zr + moves[k][1]
                      nc == zc + moves[k][2]
                  IN IF 0 <= nr /\ nr < N /\ 0 <= nc /\ nc < N
                     THEN <<PuzzleState(_swap(s, zero_idx, nr * N + nc)).state,
                            moves[k][3], 1>>
                     ELSE <<>>]
    IN SelectSeq(try, IsEntry)

\* the successor states of s, without labels and costs
Successors(s) == LET succ == neighbors(s) IN {succ[k][1] : k \in 1..Len(succ)}

(***************************************************************************)
(* src/src/heuristics.py                                                   *)
(***************************************************************************)
RECURSIVE SumOver(_, _, _)
\* sum of term[k] for k = from, ..., to
SumOver(term, from, to) ==
    IF from > to THEN 0 ELSE term[from] + SumOver(term, from + 1, to)

Abs(x) == IF x < 0 THEN -x ELSE x

\* variant: the blank is counted as a tile
hammingWithBlank(s) ==
    SumOver([i \in 0..(Len(s) - 1) |->
               IF At(s, i) # At(GOAL, i) THEN 1 ELSE 0],
            0, Len(s) - 1)

\* variant: tile v is expected in cell v
hammingByIndex(s) ==
    SumOver([i \in 0..(Len(s) - 1) |->
               IF At(s, i) # 0 /\ At(s, i) # i THEN 1 ELSE 0],
            0, Len(s) - 1)

hamming(s) ==
    SumOver([i \in 0..(Len(s) - 1) |->
               IF At(s, i) # 0 /\ At(s, i) # At(GOAL, i) THEN 1 ELSE 0],
            0, Len(s) - 1)

\* variant: the blank is counted as a tile
manhattanWithBlank(s) ==
    SumOver([idx \in 0..(Len(s) - 1) |->
               Abs(INDEX_TO_RC[idx][1] - GOAL_POS[At(s, idx)][1])
               + Abs(INDEX_TO_RC[idx][2] - GOAL_POS[At(s, idx)][2])],
            0, Len(s) - 1)

\* variant: every distance is counted twice
manhattanDoubled(s) ==
    2 * SumOver([idx \in 0..(Len(s) - 1) |->
                   IF At(s, idx) = 0 THEN 0
                   ELSE Abs(INDEX_TO_RC[idx][1] - GOAL_POS[At(s, idx)][1])
                        + Abs(INDEX_TO_RC[idx][2] - GOAL_POS[At(s, idx)][2])],
                0, Len(s) - 1)

\* variant: only the row distance is summed
manhattanRowsOnly(s) ==
    SumOver([idx \in 0..(Len(s) - 1) |->
               IF At(s, idx) = 0 THEN 0
               ELSE Abs(INDEX_TO_RC[idx][1] - GOAL_POS[At(s, idx)][1])],
            0, Len(s) - 1)

manhattan(s) ==
    SumOver([idx \in 0..(Len(s) - 1) |->
               IF At(s, idx) = 0 THEN 0
               ELSE Abs(INDEX_TO_RC[idx][1] - GOAL_POS[At(s, idx)][1])
                    + Abs(INDEX_TO_RC[idx][2] - GOAL_POS[At(s, idx)][2])],
            0, Len(s) - 1)

zero_heuristic(s) == 0

\* the heuristics a_star is called with, by function name
Heuristics == {"hamming", "manhattan", "zero_heuristic"}

\* a_star takes any function from states to integers as h; this one, the
\* tile in the centre cell, is neither admissible nor consistent
centre_tile(s) == At(s, (N * N) \div 2)

\* the functions a caller may hand to a_star
CallerHeuristics == Heuristics \cup {"centre_tile"}

\* the call h(s)
H(name, s) ==
    CASE name = "hamming" -> hamming(s)
      [] name = "manhattan" -> manhattan(s)
      [] name = "zero_heuristic" -> zero_heuristic(s)
      [] name = "centre_tile" -> centre_tile(s)

(***************************************************************************)
(* src/src/utils.py: solvability                                           *)
(***************************************************************************)
\* the list [v for v in tiles if v != 0]
NonBlank(v) == v # 0

\* variant: the blank is not skipped
_inversion_countWithBlank(tiles) ==
    Cardinality({p \in (1..Len(tiles)) \X (1..Len(tiles)) :
                   p[1] < p[2] /\ tiles[p[1]] > tiles[p[2]]})

\* variant: only tiles next to each other in the list are compared
_inversion_countAdjacent(tiles) ==
    LET arr == SelectSeq(tiles, NonBlank)
    IN Cardinality({i \in 1..(Len(arr) - 1) : arr[i] > arr[i + 1]})

_inversion_count(tiles) ==
    LET arr == SelectSeq(tiles, NonBlank)
    IN Cardinality({p \in (1..Len(arr)) \X (1..Len(arr)) :
                      p[1] < p[2] /\ arr[p[1]] > arr[p[2]]})

\* is_solvable raises ValueError on a malformed tuple, else tests the parity
is_solvable(tiles) ==
    IF Len(tiles) # N * N THEN "ValueError"
    ELSE IF SetOf(tiles) # 0..(N * N - 1) THEN "ValueError"
    ELSE (_inversion_count(tiles) % 2) = 0

(***************************************************************************)
(* src/src/search.py: a_star                                               *)
(*                                                                         *)
(* A frontier entry is the tuple (f, g, tie, state).  heapq keeps the      *)
(* entries in a list ordered as a binary heap; heappop returns the entry   *)
(* that is smallest in Python's tuple order, so the frontier is kept here  *)
(* as the set of its entries and the pop takes the smallest.               *)
(***************************************************************************)
None == <<>>

\* variant: among entries of equal f the one with the larger g comes first
EntryLessLargerGFirst(a, b) ==
    \/ a[1] < b[1]
    \/ a[1] = b[1] /\ a[2] > b[2]
    \/ a[1] = b[1] /\ a[2] = b[2] /\ a[3] < b[3]

\* variant: the order on (f, tie), without g
EntryLessNoG(a, b) ==
    \/ a[1] < b[1]
    \/ a[1] = b[1] /\ a[3] < b[3]

\* Python's tuple order on the entries, up to the state component: two
\* entries that agree on f, g and tie would be ordered by their states
EntryLess(a, b) ==
    \/ a[1] < b[1]
    \/ a[1] = b[1] /\ a[2] < b[2]
    \/ a[1] = b[1] /\ a[2] = b[2] /\ a[3] < b[3]

\* the entry heappop returns
HeapMin(heap) == CHOOSE e \in heap : \A o \in heap \ {e} : EntryLess(e, o)

\* d[k] = v on a dict
DictSet(d, k, v) == [x \in DOMAIN d \cup {k} |-> IF x = k THEN v ELSE d[x]]

RECURSIVE Reverse(_)
Reverse(q) == IF q = <<>> THEN <<>> ELSE Append(Reverse(Tail(q)), Head(q))

RECURSIVE FollowBack(_, _)
\* the while loop of _reconstruct_path
FollowBack(came_from, path) ==
    IF came_from[path[Len(path)]] # None
    THEN FollowBack(came_from, Append(path, came_from[path[Len(path)]]))
    ELSE path

\* variant: the list is not reversed
_reconstruct_pathNoReverse(came_from, goal_state) ==
    FollowBack(came_from, <<goal_state>>)

_reconstruct_path(came_from, goal_state) ==
    Reverse(FollowBack(came_from, <<goal_state>>))

\* h.__name__.capitalize()
Capitalize(name) ==
    CASE name = "hamming" -> "Hamming"
      [] name = "manhattan" -> "Manhattan"
      [] name = "zero_heuristic" -> "Zero_heuristic"
      [] name = "centre_tile" -> "Centre_tile"

\* SearchResult, without the wall-clock runtime_s
SearchResult(solved, depth, expanded, heuristic, start_state, path) ==
    [solved |-> solved, depth |-> depth, expanded |-> expanded,
     heuristic |-> heuristic, start_state |-> start_state, path |-> path]

NoResult == [solved |-> FALSE, depth |-> -1, expanded |-> -1,
             heuristic |-> "", start_state |-> None, path |-> None]

\* variant: the start is pushed with priority 0
AStarInitSeedZero(s, hn) ==
    [start |-> s, h |-> hn,
     open_heap |-> {<<0, 0, 0, s>>},
     g_score |-> [x \in {s} |-> 0],
     came_from |-> [x \in {s} |-> None],
     expanded_nodes |-> 0,
     tie_counter |-> 0,
     closed |-> {},
     cur |-> None,
     pc |-> "iterating",
     result |-> NoResult]

\* The locals of one a_star invocation after the seeding of the frontier
\* (search.py lines 45-58); cur is (f, g, tie, current) of the last pop.
AStarInit(s, hn) ==
    [start |-> s, h |-> hn,
     open_heap |-> {<<H(hn, s), 0, 0, s>>},
     g_score |-> [x \in {s} |-> 0],
     came_from |-> [x \in {s} |-> None],
     expanded_nodes |-> 0,
     tie_counter |-> 0,
     closed |-> {},
     cur |-> None,
     pc |-> "iterating",
     result |-> NoResult]

\* variant: the priority is the heuristic alone
f_valGreedy(tentative_g, hn, neighbor) == H(hn, neighbor)

\* f_val = tentative_g + h(neighbor)    (line 106)
f_val(tentative_g, hn, neighbor) == tentative_g + H(hn, neighbor)

RECURSIVE RelaxSwappedPredecessor(_, _, _, _)
\* variant: the predecessor is stored the wrong way round, as
\* came_from[current] = neighbor
RelaxSwappedPredecessor(L, current, succ, k) ==
    IF k > Len(succ) THEN L
    ELSE LET neighbor == succ[k][1]
             cost == succ[k][3]
             tentative_g == L.cur[2] + cost
         IN IF neighbor \in L.closed
            THEN RelaxSwappedPredecessor(L, current, succ, k + 1)
            ELSE IF neighbor \notin DOMAIN L.g_score
                    \/ tentative_g < L.g_score[neighbor]
                 THEN RelaxSwappedPredecessor([L EXCEPT
                               !.g_score = DictSet(@, neighbor, tentative_g),
                               !.came_from = DictSet(@, current, neighbor),
                               !.tie_counter = @ + 1,
                               !.open_heap = @ \cup
                                   {<<f_val(tentative_g, L.h, neighbor), tentative_g,
                                      L.tie_counter + 1, neighbor>>}],
                            current, succ, k + 1)
                 ELSE RelaxSwappedPredecessor(L, current, succ, k + 1)

RECURSIVE RelaxTieAfter(_, _, _, _)
\* variant: the entry is pushed with the counter as it is, and the counter
\* incremented after the push
RelaxTieAfter(L, current, succ, k) ==
    IF k > Len(succ) THEN L
    ELSE LET neighbor == succ[k][1]
             cost == succ[k][3]
             tentative_g == L.cur[2] + cost
         IN IF neighbor \in L.closed
            THEN RelaxTieAfter(L, current, succ, k + 1)
            ELSE IF neighbor \notin DOMAIN L.g_score
                    \/ tentative_g < L.g_score[neighbor]
                 THEN RelaxTieAfter([L EXCEPT
                               !.g_score = DictSet(@, neighbor, tentative_g),
                               !.came_from = DictSet(@, neighbor, current),
                               !.tie_counter = @ + 1,
                               !.open_heap = @ \cup
                                   {<<f_val(tentative_g, L.h, neighbor), tentative_g,
                                      L.tie_counter, neighbor>>}],
                            current, succ, k + 1)
                 ELSE RelaxTieAfter(L, current, succ, k + 1)

RECURSIVE Relax(_, _, _, _)
\* the for loop over current.neighbors() (lines 92-108), from its k-th item
Relax(L, current, succ, k) ==
    IF k > Len(succ) THEN L
    ELSE LET neighbor == succ[k][1]
             cost == succ[k][3]
             tentative_g == L.cur[2] + cost
         IN IF neighbor \in L.closed
            THEN Relax(L, current, succ, k + 1)
            ELSE IF neighbor \notin DOMAIN L.g_score
                    \/ tentative_g < L.g_score[neighbor]
                 THEN Relax([L EXCEPT
                               !.g_score = DictSet(@, neighbor, tentative_g),
                               !.came_from = DictSet(@, neighbor, current),
                               !.tie_counter = @ + 1,
                               !.open_heap = @ \cup
                                   {<<f_val(tentative_g, L.h, neighbor), tentative_g,
                                      L.tie_counter + 1, neighbor>>}],
                            current, succ, k + 1)
                 ELSE Relax(L, current, succ, k + 1)

\* variant: the smallest entry is read but stays in the heap
PopPeek(L) == [L EXCEPT !.cur = HeapMin(L.open_heap)]

\* variant: the popped tuple is unpacked as g, f, _, current
PopSwapped(L) ==
    LET e == HeapMin(L.open_heap)
    IN [L EXCEPT !.open_heap = @ \ {e},
                 !.cur = <<e[2], e[1], e[3], e[4]>>]

\* f, g, _, current = heapq.heappop(open_heap)    (line 63)
Pop(L) ==
    [L EXCEPT !.open_heap = @ \ {HeapMin(L.open_heap)},
              !.cur = HeapMin(L.open_heap)]

\* variant: the expansion is counted after the goal test
IterateCountsAfterGoalTest(L) ==
    IF L.open_heap = {}
    THEN [L EXCEPT !.pc = "exhausted",
                   !.result = SearchResult(FALSE, 0, L.expanded_nodes,
                                           Capitalize(L.h), L.start, None)]
    ELSE LET P == Pop(L)
             current == P.cur[4]
         IN IF current \in L.closed THEN P
            ELSE LET C == [P EXCEPT !.closed = @ \cup {current}]
                 IN IF is_goal(current)
                    THEN LET path == _reconstruct_path(C.came_from, current)
                         IN [C EXCEPT !.pc = "goal-found",
                                      !.result = SearchResult(TRUE, Len(path) - 1,
                                                     C.expanded_nodes,
                                                     Capitalize(C.h), C.start, path)]
                    ELSE Relax([C EXCEPT !.expanded_nodes = @ + 1],
                               current, neighbors(current), 1)

\* variant: the popped state is expanded without the test against closed
IterateNoDiscard(L) ==
    IF L.open_heap = {}
    THEN [L EXCEPT !.pc = "exhausted",
                   !.result = SearchResult(FALSE, 0, L.expanded_nodes,
                                           Capitalize(L.h), L.start, None)]
    ELSE LET P == Pop(L)
             current == P.cur[4]
             C == [P EXCEPT !.closed = @ \cup {current},
                            !.expanded_nodes = @ + 1]
         IN IF is_goal(current)
            THEN LET path == _reconstruct_path(C.came_from, current)
                 IN [C EXCEPT !.pc = "goal-found",
                              !.result = SearchResult(TRUE, Len(path) - 1,
                                             C.expanded_nodes,
                                             Capitalize(C.h), C.start, path)]
            ELSE Relax(C, current, neighbors(current), 1)

\* one pass through the while loop (lines 61-108), or its exit (110-120)
Iterate(L) ==
    IF L.open_heap = {}
    THEN [L EXCEPT !.pc = "exhausted",
                   !.result = SearchResult(FALSE, 0, L.expanded_nodes,
                                           Capitalize(L.h), L.start, None)]
    ELSE LET P == Pop(L)
             current == P.cur[4]
         IN IF current \in L.closed THEN P
            ELSE LET C == [P EXCEPT !.closed = @ \cup {current},
                                    !.expanded_nodes = @ + 1]
                 IN IF is_goal(current)
                    THEN LET path == _reconstruct_path(C.came_from, current)
                         IN [C EXCEPT !.pc = "goal-found",
                                      !.result = SearchResult(TRUE, Len(path) - 1,
                                                     C.expanded_nodes,
                                                     Capitalize(C.h), C.start, path)]
                    ELSE Relax(C, current, neighbors(current), 1)

RECURSIVE RunLoop(_)
\* the whole while loop, from the loop state L to the return
RunLoop(L) == IF L.pc # "iterating" THEN L ELSE RunLoop(Iterate(L))

\* a_star(start, h): the returned SearchResult
a_star(s, hn) == RunLoop(AStarInit(s, hn)).result

(***************************************************************************)
(* State.                                                                  *)
(*   arg, made      the tuple last handed to PuzzleState(...) and what the *)
(*                  construction gave                                      *)
(*   root, steps    the board a walk of blank moves began at and its       *)
(*                  length so far                                          *)
(*   start .. result   the arguments and locals of one a_star invocation   *)
(*   order          the states that invocation has added to closed, in the *)
(*                  order it added them                                    *)
(*   other, order2  the locals of a second a_star invocation, as one       *)
(*                  record, and the states it has added to closed          *)
(*   max_attempts, draws, gen_pc, generated                                *)
(*                  one random_solvable_state call: its argument, the      *)
(*                  tuples rng.shuffle has left in base so far, where the  *)
(*                  call stands, and the state it returned                 *)
(***************************************************************************)
VARIABLES arg, made, root, steps,
          start, h, open_heap, g_score, came_from, expanded_nodes,
          tie_counter, closed, cur, pc, result, order,
          other, order2,
          max_attempts, draws, gen_pc, generated

boardVars == <<arg, made, root, steps>>

searchVars == <<start, h, open_heap, g_score, came_from, expanded_nodes,
                tie_counter, closed, cur, pc, result, order>>

pairVars == <<other, order2>>

genVars == <<max_attempts, draws, gen_pc, generated>>

vars == <<arg, made, root, steps,
          start, h, open_heap, g_score, came_from, expanded_nodes,
          tie_counter, closed, cur, pc, result, order,
          other, order2,
          max_attempts, draws, gen_pc, generated>>

\* the swap-1-and-2 instance of tests/test_core.py, which is not solvable
UNSOLVABLE == <<2, 1, 3, 4, 5, 6, 7, 8, 0>>

RECURSIVE Within(_, _)
\* the boards at most k blank moves away from a board of S
Within(S, k) ==
    IF k = 0 THEN S
    ELSE Within(S \cup UNION {Successors(s) : s \in S}, k - 1)

\* two boards eight moves from the goal, where the order of expansion
\* decides which of several paths is found
DeepStarts == { <<1, 5, 2, 8, 0, 3, 4, 7, 6>>, <<5, 2, 0, 1, 4, 3, 7, 8, 6>> }

\* the start boards explored: every board near the goal, the two deeper
\* ones, and one board from which the goal cannot be reached
Starts == Within({GOAL}, MaxScramble) \cup DeepStarts \cup {UNSOLVABLE}

\* tuples that are no board: too short, too long, empty, a repeated value,
\* a value out of range
Malformed ==
    { SubSeq(GOAL, 1, N * N - 1),
      Append(GOAL, N * N),
      <<>>,
      [GOAL EXCEPT ![1] = 2],
      [GOAL EXCEPT ![N * N] = N * N],
      [GOAL EXCEPT ![1] = -1],
      <<0, 0, 0, 0, 0, 0, 0, 0, 0>>,
      Append(GOAL, 0),
      <<0, 1, 2, 3, 4, 5, 6, 7, 8, 9>> }

\* the tuples handed to PuzzleState(...) by a caller
Inputs == Starts \cup Malformed

\* before any construction
NotBuilt == [raised |-> "none", state |-> NoState]

\* the locals of the invocation as one record, and back
Locals ==
    [start |-> start, h |-> h, open_heap |-> open_heap, g_score |-> g_score,
     came_from |-> came_from, expanded_nodes |-> expanded_nodes,
     tie_counter |-> tie_counter, closed |-> closed, cur |-> cur,
     pc |-> pc, result |-> result]

SetLocals(L) ==
    /\ start' = L.start
    /\ h' = L.h
    /\ open_heap' = L.open_heap
    /\ g_score' = L.g_score
    /\ came_from' = L.came_from
    /\ expanded_nodes' = L.expanded_nodes
    /\ tie_counter' = L.tie_counter
    /\ closed' = L.closed
    /\ cur' = L.cur
    /\ pc' = L.pc
    /\ result' = L.result

\* no a_star invocation
NoSearch ==
    /\ start = None /\ h = "" /\ open_heap = {} /\ g_score = <<>>
    /\ came_from = <<>> /\ expanded_nodes = 0 /\ tie_counter = 0
    /\ closed = {} /\ cur = None /\ pc = "none" /\ result = NoResult
    /\ order = <<>>

\* the locals record of an invocation that has not been made
NoInvocation ==
    [start |-> None, h |-> "", open_heap |-> {}, g_score |-> <<>>,
     came_from |-> <<>>, expanded_nodes |-> 0, tie_counter |-> 0,
     closed |-> {}, cur |-> None, pc |-> "none", result |-> NoResult]

\* no second invocation
NoPair == other = NoInvocation /\ order2 = <<>>

\* no random_solvable_state call
NoGen ==
    /\ max_attempts = 0 /\ draws = <<>> /\ gen_pc = "none"
    /\ generated = NotBuilt

\* the states added to closed so far, after a pass from locals L to locals M
Expanded(seq, L, M) ==
    IF M.closed # L.closed THEN Append(seq, M.cur[4]) ELSE seq

(***************************************************************************)
(* Spec: a caller builds PuzzleState(arg) for every tuple of Inputs and,   *)
(* when that gives a state, calls a_star(state, h) with each heuristic;    *)
(* a_star advances one pass of its while loop per step.                    *)
(***************************************************************************)
Init ==
    /\ arg \in Inputs
    /\ made = NotBuilt
    /\ root = None
    /\ steps = 0
    /\ NoSearch
    /\ NoPair
    /\ NoGen

\* PuzzleState(arg)
Construct ==
    /\ made = NotBuilt
    /\ made' = PuzzleState(arg)
    /\ root' = made'.state
    /\ UNCHANGED <<arg, steps>>
    /\ UNCHANGED <<searchVars, pairVars, genVars>>

\* the call a_star(made.state, hn), up to the seeding of the frontier
Call ==
    /\ pc = "none"
    /\ made.raised = "none"
    /\ made.state # NoState
    /\ \E hn \in Heuristics : SetLocals(AStarInit(made.state, hn))
    /\ order' = <<>>
    /\ UNCHANGED <<boardVars, pairVars, genVars>>

\* one pass of `while open_heap:`; the exploration stops following a run
\* after MaxExpand expansions
Loop ==
    /\ pc = "iterating"
    /\ expanded_nodes < MaxExpand
    /\ LET M == Iterate(Locals)
       IN SetLocals(M) /\ order' = Expanded(order, Locals, M)
    /\ UNCHANGED <<boardVars, pairVars, genVars>>

Next == Construct \/ Call \/ Loop

Spec == Init /\ [][Next]_vars

\* the loop is never suspended: a_star runs to its return
FairSpec == Spec /\ WF_vars(Loop)

(***************************************************************************)
(* SpecBoard: blank moves from the goal and from the unsolvable instance,  *)
(* without a bound: every board that can be reached.                       *)
(***************************************************************************)
InitBoard ==
    /\ root \in {GOAL, UNSOLVABLE}
    /\ arg = root
    /\ made = PuzzleState(root)
    /\ steps = 0
    /\ NoSearch
    /\ NoPair
    /\ NoGen

\* one item of made.state.neighbors()
Move ==
    /\ made.raised = "none"
    /\ made.state # NoState
    /\ LET succ == neighbors(made.state)
       IN \E k \in 1..Len(succ) :
            /\ arg' = succ[k][1]
            /\ made' = PuzzleState(arg')
    /\ UNCHANGED <<root, steps>>
    /\ UNCHANGED <<searchVars, pairVars, genVars>>

NextBoard == Move

SpecBoard == InitBoard /\ [][NextBoard]_vars

(***************************************************************************)
(* SpecWalk: walks of at most MaxWalk blank moves, counted, from every     *)
(* board at most MaxWalk moves from the goal.                               *)
(***************************************************************************)
InitWalk ==
    /\ root \in Within({GOAL}, MaxWalk)
    /\ arg = root
    /\ made = PuzzleState(root)
    /\ steps = 0
    /\ NoSearch
    /\ NoPair
    /\ NoGen

Step ==
    /\ steps < MaxWalk
    /\ made.raised = "none"
    /\ made.state # NoState
    /\ LET succ == neighbors(made.state)
       IN \E k \in 1..Len(succ) :
            /\ arg' = succ[k][1]
            /\ made' = PuzzleState(arg')
    /\ steps' = steps + 1
    /\ UNCHANGED root
    /\ UNCHANGED <<searchVars, pairVars, genVars>>

NextWalk == Step

SpecWalk == InitWalk /\ [][NextWalk]_vars

(***************************************************************************)
(* SpecPair: two a_star invocations, each with locals of its own, whose    *)
(* passes through the while loop interleave in every order (a second call  *)
(* after the first has returned is one of these orders).                   *)
(***************************************************************************)
PairStarts == Within({GOAL}, MaxPair)

InitPair ==
    /\ arg \in PairStarts
    /\ root = arg
    /\ made = PuzzleState(arg)
    /\ steps = 0
    /\ NoSearch
    /\ NoPair
    /\ NoGen

\* variant: g_score is a dict that outlives an invocation, so the second
\* call writes its start into what the first one has recorded
Call2Leftover ==
    /\ other.pc = "none"
    /\ \E t \in PairStarts, hn \in Heuristics :
         /\ PuzzleState(t).raised = "none"
         /\ other' = [AStarInit(PuzzleState(t).state, hn) EXCEPT
                        !.g_score = DictSet(g_score, PuzzleState(t).state, 0)]
    /\ order2' = <<>>
    /\ UNCHANGED <<boardVars, searchVars, genVars>>

\* the second call a_star(PuzzleState(t), hn), up to the seeding
Call2 ==
    /\ other.pc = "none"
    /\ \E t \in PairStarts, hn \in Heuristics :
         /\ PuzzleState(t).raised = "none"
         /\ other' = AStarInit(PuzzleState(t).state, hn)
    /\ order2' = <<>>
    /\ UNCHANGED <<boardVars, searchVars, genVars>>

\* variant: closed is one set that both invocations add to and test
Loop2SharedClosed ==
    /\ other.pc = "iterating"
    /\ other.expanded_nodes < MaxExpand
    /\ other' = Iterate([other EXCEPT !.closed = @ \cup closed])
    /\ order2' = Expanded(order2, other, other')
    /\ UNCHANGED <<boardVars, searchVars, genVars>>

\* one pass of the while loop of the second invocation
Loop2 ==
    /\ other.pc = "iterating"
    /\ other.expanded_nodes < MaxExpand
    /\ other' = Iterate(other)
    /\ order2' = Expanded(order2, other, other')
    /\ UNCHANGED <<boardVars, searchVars, genVars>>

NextPair == Call \/ Loop \/ Call2 \/ Loop2

SpecPair == InitPair /\ [][NextPair]_vars

(***************************************************************************)
(* SpecAny: a_star called with each function of CallerHeuristics, from     *)
(* every board at most MaxAny moves from the goal.                         *)
(***************************************************************************)
InitAny ==
    /\ arg \in Within({GOAL}, MaxAny)
    /\ root = arg
    /\ made = PuzzleState(arg)
    /\ steps = 0
    /\ NoSearch
    /\ NoPair
    /\ NoGen

\* the call a_star(made.state, hn) with any of the caller's functions
CallAny ==
    /\ pc = "none"
    /\ made.raised = "none"
    /\ made.state # NoState
    /\ \E hn \in CallerHeuristics : SetLocals(AStarInit(made.state, hn))
    /\ order' = <<>>
    /\ UNCHANGED <<boardVars, pairVars, genVars>>

NextAny == CallAny \/ Loop

SpecAny == InitAny /\ [][NextAny]_vars

(***************************************************************************)
(* SpecGen: one call random_solvable_state(rng, GOAL, max_attempts).  The  *)
(* random source is free: each rng.shuffle(base) may leave any of the      *)
(* tuples of Shuffles in base.                                             *)
(***************************************************************************)
\* what a shuffle may produce: the goal, solvable boards, unsolvable boards
Shuffles == Within({GOAL}, 1) \cup Within({UNSOLVABLE}, 1)

InitGen ==
    /\ arg = None
    /\ root = None
    /\ made = NotBuilt
    /\ steps = 0
    /\ NoSearch
    /\ NoPair
    /\ NoGen

\* the call, with its max_attempts argument
Generate ==
    /\ gen_pc = "none"
    /\ \E m \in 0..MaxAttempts : max_attempts' = m
    /\ draws' = <<>>
    /\ gen_pc' = "drawing"
    /\ UNCHANGED generated
    /\ UNCHANGED <<boardVars, searchVars, pairVars>>

\* variant: the draw is not compared with the goal
AttemptAnySolvable ==
    /\ gen_pc = "drawing"
    /\ Len(draws) < max_attempts
    /\ \E tiles \in Shuffles :
         /\ draws' = Append(draws, tiles)
         /\ IF is_solvable(tiles) = TRUE
            THEN generated' = PuzzleState(tiles) /\ gen_pc' = "returned"
            ELSE UNCHANGED <<generated, gen_pc>>
    /\ UNCHANGED max_attempts
    /\ UNCHANGED <<boardVars, searchVars, pairVars>>

\* one pass of `for _ in range(max_attempts)`: shuffle, test, maybe return
Attempt ==
    /\ gen_pc = "drawing"
    /\ Len(draws) < max_attempts
    /\ \E tiles \in Shuffles :
         /\ draws' = Append(draws, tiles)
         /\ IF is_solvable(tiles) = TRUE /\ tiles # GOAL
            THEN generated' = PuzzleState(tiles) /\ gen_pc' = "returned"
            ELSE UNCHANGED <<generated, gen_pc>>
    /\ UNCHANGED max_attempts
    /\ UNCHANGED <<boardVars, searchVars, pairVars>>

\* the return after the for loop has run out
Fallback ==
    /\ gen_pc = "drawing"
    /\ Len(draws) = max_attempts
    /\ generated' = PuzzleState(GOAL)
    /\ gen_pc' = "returned"
    /\ UNCHANGED <<max_attempts, draws>>
    /\ UNCHANGED <<boardVars, searchVars, pairVars>>

NextGen == Generate \/ Attempt \/ Fallback

SpecGen == InitGen /\ [][NextGen]_vars

(***************************************************************************)
(* Reference notions the properties are stated with, computed without any  *)
(* of the search code.                                                     *)
(***************************************************************************)
\* t is a permutation of 0..8: nine cells that hold every value of 0..8
IsPermutation(t) ==
    /\ Len(t) = 9
    /\ \A v \in 0..8 : \E k \in 1..9 : t[k] = v

RECURSIVE Layers(_, _, _)
\* breadth-first layers: the number of the first layer that holds the goal
Layers(front, seen, d) ==
    IF GOAL \in front THEN d
    ELSE IF front = {} THEN -1
    ELSE LET nxt == (UNION {Successors(x) : x \in front}) \ seen
         IN Layers(nxt, seen \cup nxt, d + 1)

\* the length of a shortest sequence of blank moves from s to the goal
ShortestToGoal(s) == Layers({s}, {s}, 0)

RECURSIVE Hops(_, _, _, _)
\* breadth-first layers from `front`: the number of the first that holds t
Hops(front, seen, d, t) ==
    IF t \in front THEN d
    ELSE IF front = {} THEN -1
    ELSE LET nxt == (UNION {Successors(x) : x \in front}) \ seen
         IN Hops(nxt, seen \cup nxt, d + 1, t)

\* the length of a shortest sequence of blank moves from s to t
Distance(s, t) == Hops({s}, {s}, 0, t)

RECURSIVE Factorial(_)
Factorial(n) == IF n <= 1 THEN 1 ELSE n * Factorial(n - 1)

\* the run of a_star has returned
Returned == pc \in {"goal-found", "exhausted"}

(***************************************************************************)
(* C1. For a solvable start and each of the three heuristics, a_star       *)
(* returns solved=True with depth equal to the length of a shortest        *)
(* sequence of blank moves from the start to the goal, and never returns   *)
(* the exhausted outcome.                                                  *)
(***************************************************************************)
C1_OptimalDepth ==
    (Returned /\ is_solvable(start) = TRUE) =>
        /\ pc = "goal-found"
        /\ result.solved = TRUE
        /\ result.depth = ShortestToGoal(start)

C1_Witness ==
    /\ pc = "goal-found"
    /\ is_solvable(start) = TRUE
    /\ result.depth = MaxScramble
    /\ h = "hamming"

(***************************************************************************)
(* C2. is_solvable(p) is true exactly when the goal is reachable from p:   *)
(* every board on a walk from the goal is solvable and every move can be   *)
(* taken back (so the goal is reachable from it); every board on a walk    *)
(* from the unsolvable instance is not solvable and is not the goal.  The  *)
(* two walks together visit all 9! permutations.                           *)
(***************************************************************************)
C2_SolvableIffReachable ==
    made.raised = "none" =>
        /\ (is_solvable(made.state) = TRUE) <=> (root = GOAL)
        /\ made.state = GOAL => root = GOAL
        /\ \A t \in Successors(made.state) : made.state \in Successors(t)

C2_Witness ==
    /\ root = GOAL
    /\ made.state = <<1, 2, 3, 4, 0, 6, 7, 5, 8>>

Measure(heap, nClosed, state) ==
    Cardinality(heap) + Len(moves) * (Factorial(N * N) - nClosed)
      + (IF state = "iterating" THEN 1 ELSE 0)

C4_Terminates ==
    [][pc = "iterating" =>
          /\ Measure(open_heap', expanded_nodes', pc')
               < Measure(open_heap, expanded_nodes, pc)
          /\ Measure(open_heap', expanded_nodes', pc') >= 0
          /\ expanded_nodes' = Cardinality(closed')
          /\ \A s \in closed' : IsPermutation(s)
          /\ pc' \in {"iterating", "goal-found", "exhausted"}
          /\ pc' = "goal-found" => result'.solved = TRUE
          /\ pc' = "exhausted" => result'.solved = FALSE
          /\ pc' = "iterating" => result' = NoResult]_vars

C4_Witness ==
    /\ pc = "goal-found"
    /\ expanded_nodes >= 10

(***************************************************************************)
(* C6. In a successful outcome the path begins at the start, ends at the   *)
(* goal, each consecutive pair is one move of neighbors(), and             *)
(* depth = len(path) - 1.                                                  *)
(***************************************************************************)
C6_PathIsMoves ==
    result.solved = TRUE =>
        /\ result.path # None
        /\ result.path[1] = start
        /\ result.path[Len(result.path)] = GOAL
        /\ \A i \in 1..(Len(result.path) - 1) :
             result.path[i + 1] \in Successors(result.path[i])
        /\ result.depth = Len(result.path) - 1

C6_Witness ==
    /\ result.solved = TRUE
    /\ Len(result.path) = MaxScramble + 1

(***************************************************************************)
(* C7. PuzzleState(tiles) raises ValueError and gives no state when tiles  *)
(* has not length 9 or is not a permutation of 0..8; every state that      *)
(* exists (the one built, the start, the frontier entries, the recorded    *)
(* and the closed states, the successors of the current state) holds a     *)
(* permutation of 0..8.                                                    *)
(***************************************************************************)
C7_OnlyPermutations ==
    /\ made # NotBuilt =>
         /\ (made.raised = "ValueError") <=> ~IsPermutation(arg)
         /\ made.raised = "ValueError" => made.state = NoState
         /\ made.raised = "none" => (made.state = arg /\ IsPermutation(made.state))
    /\ made.raised = "ValueError" => pc = "none"
    /\ pc # "none" =>
         /\ IsPermutation(start)
         /\ \A e \in open_heap : IsPermutation(e[4])
         /\ \A s \in DOMAIN g_score : IsPermutation(s)
         /\ \A s \in closed : IsPermutation(s)
         /\ cur # None => \A t \in Successors(cur[4]) : IsPermutation(t)

\* a tuple of the right length that is no permutation has been rejected
C7_Witness ==
    /\ made.raised = "ValueError"
    /\ made.state = NoState
    /\ Len(arg) = 9

(***************************************************************************)
(* C8. For a solvable start, a_star with manhattan returns the depth that  *)
(* a_star with zero_heuristic returns, and expands no more states.         *)
(***************************************************************************)
C8_ManhattanNoMoreWork ==
    (Returned /\ h = "manhattan" /\ is_solvable(start) = TRUE) =>
        /\ result.depth = a_star(start, "zero_heuristic").depth
        /\ result.expanded <= a_star(start, "zero_heuristic").expanded

C8_Witness ==
    /\ pc = "goal-found"
    /\ h = "manhattan"
    /\ result.depth = MaxScramble
    /\ result.expanded < a_star(start, "zero_heuristic").expanded

(***************************************************************************)
(* C9. hamming and manhattan are admissible: whenever a sequence of moves  *)
(* leads from a board to the goal, neither heuristic of that board exceeds *)
(* the length of the sequence (in particular of a shortest one).           *)
(***************************************************************************)
C9_Admissible ==
    (made.raised = "none" /\ made.state = GOAL) =>
        /\ hamming(root) <= steps
        /\ manhattan(root) <= steps

\* a board whose manhattan value is exactly its distance, several moves out
C9_Witness ==
    /\ made.state = GOAL
    /\ steps = MaxWalk
    /\ manhattan(root) = steps
    /\ hamming(root) < steps

(***************************************************************************)
(* C10. hamming and manhattan are consistent: for every board s and every  *)
(* successor s' of s.neighbors(), h(s) <= 1 + h(s').                       *)
(***************************************************************************)
C10_Consistent ==
    [][/\ hamming(made.state) <= 1 + hamming(made'.state)
       /\ manhattan(made.state) <= 1 + manhattan(made'.state)]_vars

\* a move has led to a board on which both heuristics are large
C10_Witness ==
    /\ made.state # root
    /\ hamming(made.state) = 8
    /\ manhattan(made.state) >= 20

(***************************************************************************)
(* C11. Two invocations of a_star with the same start state and the same   *)
(* heuristic expand the same states in the same order (at every moment the *)
(* shorter of the two expansion sequences is a prefix of the longer), and  *)
(* once both have returned their outcomes have the same depth and the same *)
(* expanded count.                                                         *)
(***************************************************************************)
IsPrefix(p, q) == Len(p) <= Len(q) /\ SubSeq(q, 1, Len(p)) = p

\* the second invocation has returned
Returned2 == other.pc \in {"goal-found", "exhausted"}

Cell(r, c) == 3 * r + c + 1

\* the board s with the blank, at (r, c), exchanged with the tile at (r2, c2)
Slide(s, r, c, r2, c2) ==
    [i \in 1..9 |-> IF i = Cell(r, c) THEN s[Cell(r2, c2)]
                    ELSE IF i = Cell(r2, c2) THEN 0
                    ELSE s[i]]

ExpectedNeighbors(s) ==
    LET rc == CHOOSE p \in (0..2) \X (0..2) : s[Cell(p[1], p[2])] = 0
        r == rc[1]
        c == rc[2]
    IN (IF r > 0 THEN << <<Slide(s, r, c, r - 1, c), "Up", 1>> >> ELSE <<>>)
       \o (IF r < 2 THEN << <<Slide(s, r, c, r + 1, c), "Down", 1>> >> ELSE <<>>)
       \o (IF c > 0 THEN << <<Slide(s, r, c, r, c - 1), "Left", 1>> >> ELSE <<>>)
       \o (IF c < 2 THEN << <<Slide(s, r, c, r, c + 1), "Right", 1>> >> ELSE <<>>)

\* 2, 3 or 4: the number of cells next to the blank of s
CellsNextToBlank(s) ==
    LET k == CHOOSE i \in 1..9 : s[i] = 0
    IN IF k = 5 THEN 4 ELSE IF k \in {1, 3, 7, 9} THEN 2 ELSE 3

C12_NeighborsExact ==
    made.raised = "none" =>
        /\ neighbors(made.state) = ExpectedNeighbors(made.state)
        /\ Len(neighbors(made.state)) = CellsNextToBlank(made.state)

\* a move has put the blank in the centre: four successors
C12_Witness ==
    /\ made.raised = "none"
    /\ made.state # root
    /\ made.state[5] = 0
    /\ Len(neighbors(made.state)) = 4
    /\ neighbors(made.state)[3][2] = "Left"

(***************************************************************************)
(* C13. Whatever permutations the random source produces,                  *)
(* random_solvable_state draws at most max_attempts of them and returns    *)
(* the first one that is solvable and is not the goal (drawing none after  *)
(* it); when max_attempts draws have brought none, it returns the goal     *)
(* state.  The returned state is solvable in every case.  Solvability is   *)
(* taken here as being reachable from the goal, which cannot be said of    *)
(* any board on a walk from the unsolvable instance.                       *)
(***************************************************************************)
\* the draw could be returned: it is not the goal and the goal can be
\* reached from it (Shuffles holds boards next to GOAL and next to UNSOLVABLE)
Qualifies(t) == t # GOAL /\ t \in Within({GOAL}, 1)

C13_FirstQualifyingDraw ==
    /\ Len(draws) <= max_attempts
    /\ \A k \in 1..(Len(draws) - 1) : ~Qualifies(draws[k])
    /\ gen_pc = "drawing" => \A k \in 1..Len(draws) : ~Qualifies(draws[k])
    /\ gen_pc = "returned" =>
         /\ generated.raised = "none"
         /\ generated.state \in Within({GOAL}, 1)
         /\ IF draws # <<>> /\ Qualifies(draws[Len(draws)])
            THEN generated.state = draws[Len(draws)]
            ELSE /\ generated.state = GOAL
                 /\ Len(draws) = max_attempts

\* returned at the last permitted draw, after the goal and an unsolvable
\* board had been drawn and passed over
C13_Witness ==
    /\ gen_pc = "returned"
    /\ max_attempts = MaxAttempts
    /\ Len(draws) = max_attempts
    /\ GOAL \in SetOf(draws)
    /\ UNSOLVABLE \in SetOf(draws)
    /\ generated.state = draws[Len(draws)]
    /\ generated.state # GOAL

(***************************************************************************)
(* C14. For every permutation p of 0..8, is_solvable(p) is true exactly    *)
(* when the number of pairs of places i < j that both hold a tile (not the *)
(* blank) with p[i] > p[j] is even; (1,2,3,4,5,6,7,8,0) is solvable and    *)
(* (2,1,3,4,5,6,7,8,0) is not.                                             *)
(***************************************************************************)
InversionPairs(p) ==
    {ij \in (1..9) \X (1..9) :
        /\ ij[1] < ij[2]
        /\ p[ij[1]] # 0 /\ p[ij[2]] # 0
        /\ p[ij[1]] > p[ij[2]]}

C14_InversionParity ==
    /\ is_solvable(<<1, 2, 3, 4, 5, 6, 7, 8, 0>>) = TRUE
    /\ is_solvable(<<2, 1, 3, 4, 5, 6, 7, 8, 0>>) = FALSE
    /\ made.raised = "none" =>
         is_solvable(made.state) = (Cardinality(InversionPairs(made.state)) % 2 = 0)

\* a board with many inversions, an odd number of them
C14_Witness ==
    /\ made.raised = "none"
    /\ made.state # root
    /\ Cardinality(InversionPairs(made.state)) = 27
    /\ is_solvable(made.state) = FALSE

(***************************************************************************)
(* C15. For every permutation s of 0..8, manhattan(s) >= hamming(s).       *)
(***************************************************************************)
C15_ManhattanDominates ==
    made.raised = "none" => manhattan(made.state) >= hamming(made.state)

\* every tile is out of place by exactly one cell: the two values meet
C15_Witness ==
    /\ made.raised = "none"
    /\ made.state # root
    /\ hamming(made.state) = 8
    /\ manhattan(made.state) = 8

(***************************************************************************)
(* C16. Two a_star invocations whose passes through the loop interleave in *)
(* any order each return the outcome (solved, depth, expanded, path) that  *)
(* the same call returns when it runs alone from entry to return, and a    *)
(* pass of one invocation changes no local of the other.                   *)
(***************************************************************************)
SameOutcome(r, alone) ==
    /\ r.solved = alone.solved
    /\ r.depth = alone.depth
    /\ r.expanded = alone.expanded
    /\ r.path = alone.path

C17_ZeroOnGoal ==
    /\ \A name \in Heuristics : H(name, PuzzleState(GOAL).state) = 0
    /\ (made.raised = "none" /\ is_goal(made.state)) =>
         /\ hamming(made.state) = 0
         /\ manhattan(made.state) = 0
         /\ zero_heuristic(made.state) = 0

\* a walk that left the goal has come back to it
C17_Witness ==
    /\ made.raised = "none"
    /\ is_goal(made.state)
    /\ root # GOAL
    /\ steps = MaxWalk
    /\ manhattan(made.state) = 0

(***************************************************************************)
(* C18. With hamming, manhattan or zero_heuristic: when a pass of the loop *)
(* adds a state to closed, that state was not closed before, the g of the  *)
(* popped entry equals the state's g_score and equals the length of a      *)
(* shortest sequence of moves from the start to it; no pass changes the    *)
(* g_score or the predecessor of a state already closed, removes a state   *)
(* from closed, or expands a state a second time.                          *)
(***************************************************************************)
C18_ClosedIsFinal ==
    [][pc = "iterating" =>
          /\ closed \subseteq closed'
          /\ closed' # closed =>
               /\ cur'[4] \notin closed
               /\ closed' = closed \cup {cur'[4]}
               /\ cur'[2] = g_score[cur'[4]]
               /\ cur'[2] = Distance(start, cur'[4])
               /\ order' = Append(order, cur'[4])
          /\ closed' = closed => order' = order
          /\ \A s \in closed :
               /\ g_score'[s] = g_score[s]
               /\ came_from'[s] = came_from[s]
          /\ \A i, j \in 1..Len(order') : order'[i] = order'[j] => i = j]_vars

\* a state four moves from the start has just been closed, after others
C18_Witness ==
    /\ pc = "iterating"
    /\ cur # None
    /\ cur[4] \in closed
    /\ cur[2] = g_score[cur[4]]
    /\ cur[2] = 4
    /\ Len(order) >= 10
    /\ order[Len(order)] = cur[4]

(***************************************************************************)
(* C19. With any function as h: at every head of the loop each frontier    *)
(* entry (f, g, tie, s) has f = g + h(s) and g >= g_score[s], and each     *)
(* state with a g_score that is not closed has a frontier entry whose g is *)
(* its g_score.  Over every step (the seeding and each pass) no g_score is *)
(* dropped or raised, and the entries pushed are exactly one per state     *)
(* whose g_score was first recorded or lowered, carrying the new g_score.  *)
(***************************************************************************)
\* the states whose g_score the step records for the first time or lowers
Recorded ==
    {s \in DOMAIN g_score' : s \notin DOMAIN g_score \/ g_score'[s] < g_score[s]}

C19_FrontierInvariant ==
    /\ [](pc # "none" =>
            /\ \A e \in open_heap :
                 /\ e[1] = e[2] + H(h, e[4])
                 /\ e[4] \in DOMAIN g_score
                 /\ e[2] >= g_score[e[4]]
            /\ \A s \in (DOMAIN g_score) \ closed :
                 \E e \in open_heap : e[4] = s /\ e[2] = g_score[s])
    /\ [][/\ \A s \in DOMAIN g_score :
               s \in DOMAIN g_score' /\ g_score'[s] <= g_score[s]
          /\ {e[4] : e \in open_heap' \ open_heap} = Recorded
          /\ Cardinality(open_heap' \ open_heap) = Cardinality(Recorded)
          /\ \A e \in open_heap' \ open_heap : e[2] = g_score'[e[4]]]_vars

\* a g_score has been lowered: the frontier holds the entry pushed for the
\* state before, with a g above the state's g_score
C19_Witness ==
    /\ pc = "iterating"
    /\ \E e \in open_heap :
         /\ e[2] > g_score[e[4]]
         /\ e[4] \notin closed
         /\ \E o \in open_heap : o[4] = e[4] /\ o[2] = g_score[e[4]]

(***************************************************************************)
(* C20. With any function as h: no state is expanded twice and the         *)
(* expansion counter always equals the size of closed; a pass that pops an *)
(* entry whose state is already closed removes that entry and changes      *)
(* neither closed, the counter, g_score nor the predecessor map, while a   *)
(* pass that pops a state not yet closed adds it and counts it.            *)
(***************************************************************************)
C20_ExpandedOnce ==
    /\ [](/\ expanded_nodes = Cardinality(closed)
          /\ expanded_nodes = Len(order)
          /\ closed = SetOf(order)
          /\ \A i, j \in 1..Len(order) : order[i] = order[j] => i = j)
    /\ [][(pc = "iterating" /\ open_heap # {}) =>
            IF HeapMin(open_heap)[4] \in closed
            THEN /\ closed' = closed
                 /\ expanded_nodes' = expanded_nodes
                 /\ g_score' = g_score
                 /\ came_from' = came_from
                 /\ open_heap' = open_heap \ {HeapMin(open_heap)}
                 /\ order' = order
            ELSE /\ closed' = closed \cup {HeapMin(open_heap)[4]}
                 /\ expanded_nodes' = expanded_nodes + 1]_vars

\* the entry just popped was for a state closed earlier, and was discarded
C20_Witness ==
    /\ pc = "iterating"
    /\ cur # None
    /\ cur[4] \in closed
    /\ order[Len(order)] # cur[4]
    /\ cur[2] > g_score[cur[4]]
    /\ expanded_nodes = Cardinality(closed)

(***************************************************************************)
(* C21. With hamming, manhattan or zero_heuristic the f values of the      *)
(* entries a_star expands never go down: when a pass expands a state, the  *)
(* f of the popped entry is at least the f with which the state expanded   *)
(* before it was popped (its g_score, final since it was closed, plus its  *)
(* heuristic value).                                                       *)
(***************************************************************************)
\* the state expanded last
LastExpanded == order[Len(order)]

C21_MonotoneF ==
    [][(pc = "iterating" /\ closed' # closed /\ order # <<>>) =>
          /\ cur'[1] = cur'[2] + H(h, cur'[4])
          /\ cur'[1] >= g_score[LastExpanded] + H(h, LastExpanded)]_vars

\* the state just expanded had a larger f than the one expanded before it
C21_Witness ==
    /\ pc = "iterating"
    /\ h = "manhattan"
    /\ Len(order) >= 3
    /\ cur[4] = LastExpanded
    /\ cur[1] > g_score[order[Len(order) - 1]] + H(h, order[Len(order) - 1])

(***************************************************************************)
(* C22. When the start state is the goal, a_star with any function as h    *)
(* returns solved=True, depth=0, expanded=1 and path=[start], and has      *)
(* generated no successor: nothing but the start was recorded or pushed.   *)
(***************************************************************************)
C22_StartIsGoal ==
    (pc # "none" /\ start = GOAL) =>
        /\ pc = "iterating" => (cur = None /\ open_heap = {<<H(h, start), 0, 0, start>>})
        /\ Returned =>
             /\ pc = "goal-found"
             /\ result.solved = TRUE
             /\ result.depth = 0
             /\ result.expanded = 1
             /\ result.path = <<start>>
             /\ result.start_state = start
             /\ DOMAIN g_score = {start}
             /\ DOMAIN came_from = {start}
             /\ tie_counter = 0
             /\ open_heap = {}
             /\ order = <<start>>

\* the call on the goal with a heuristic that is not 0 there has returned
C22_Witness ==
    /\ Returned
    /\ start = GOAL
    /\ h = "centre_tile"
    /\ H(h, start) # 0
    /\ result.expanded = 1

(***************************************************************************)
(* C23. Every outcome of a_star has expanded >= 1: the first pass finds    *)
(* the frontier non-empty and closes and counts the start, and the counter *)
(* never goes down.  Every successful outcome has expanded >= depth + 1:   *)
(* the depth + 1 states of the returned path are distinct and all closed.  *)
(***************************************************************************)
C23_ExpandedAtLeast ==
    /\ (pc = "iterating" /\ cur = None) => open_heap # {}
    /\ (pc # "none" /\ cur # None) =>
         /\ expanded_nodes >= 1
         /\ start \in closed
    /\ Returned =>
         /\ result.expanded = expanded_nodes
         /\ result.expanded >= 1
    /\ result.solved = TRUE =>
         /\ result.expanded >= result.depth + 1
         /\ Len(result.path) = result.depth + 1
         /\ \A i \in 1..Len(result.path) : result.path[i] \in closed
         /\ \A i, j \in 1..Len(result.path) :
              result.path[i] = result.path[j] => i = j
         /\ Cardinality(closed) = result.expanded

\* the one-move instance of the tests: depth 1, start and goal expanded
C23_Witness ==
    /\ Returned
    /\ start = <<1, 2, 3, 4, 5, 6, 7, 0, 8>>
    /\ h = "hamming"
    /\ result.solved = TRUE
    /\ result.depth = 1
    /\ result.expanded = result.depth + 1

(***************************************************************************)
(* C25. With hamming, manhattan or zero_heuristic: no pass changes a       *)
(* g_score or predecessor once recorded (the branch                        *)
(* tentative_g < g_score[neighbor] is not taken), every state is pushed at *)
(* most once (the pushes are as many as the recorded states, and no two    *)
(* frontier entries are for one state), and the entry popped is never for  *)
(* a state already closed.                                                 *)
(***************************************************************************)
C25_NoImprovement ==
    /\ [](pc # "none" =>
            /\ tie_counter + 1 = Cardinality(DOMAIN g_score)
            /\ \A e \in open_heap :
                 /\ e[4] \notin closed
                 /\ e[2] = g_score[e[4]]
                 /\ \A o \in open_heap : o[4] = e[4] => o = e)
    /\ [][pc = "iterating" =>
            /\ \A s \in DOMAIN g_score :
                 /\ g_score'[s] = g_score[s]
                 /\ came_from'[s] = came_from[s]
            /\ open_heap # {} =>
                 /\ HeapMin(open_heap)[4] \notin closed
                 /\ closed' # closed]_vars

\* the state just expanded has a neighbour that another state had recorded
\* before and that is still open: the comparison of the two g was made,
\* and the recorded one was kept
C25_Witness ==
    /\ pc = "iterating"
    /\ cur # None
    /\ cur[4] = LastExpanded
    /\ \E t \in Successors(cur[4]) :
         /\ t \in DOMAIN g_score
         /\ t \notin closed
         /\ came_from[t] # cur[4]
         /\ g_score[t] <= cur[2] + 1

(***************************************************************************)
(* C26. The start is pushed with tie 0, and the entries a pass pushes      *)
(* carry the values tie_counter + 1, ..., up to the new tie_counter, one   *)
(* each: every tie pushed is above every tie pushed before.  So no two     *)
(* frontier entries share a tie, and a non-empty frontier always has one   *)
(* entry that is below every other on (f, g, tie) alone.                   *)
(***************************************************************************)
\* the entries the step pushes
Pushed == open_heap' \ open_heap

C26_TieStrictlyIncreasing ==
    /\ [](pc # "none" =>
            /\ tie_counter >= 0
            /\ cur # None => cur[3] \in 0..tie_counter
            /\ \A e \in open_heap :
                 /\ e[3] \in 0..tie_counter
                 /\ \A o \in open_heap : o[3] = e[3] => o = e
            /\ open_heap # {} =>
                 \E e \in open_heap : \A o \in open_heap \ {e} : EntryLess(e, o))
    /\ [][IF pc = "none"
          THEN /\ tie_counter' = 0
               /\ {e[3] : e \in Pushed} = {0}
               /\ Cardinality(Pushed) = 1
          ELSE /\ tie_counter' >= tie_counter
               /\ {e[3] : e \in Pushed} = (tie_counter + 1)..tie_counter'
               /\ Cardinality(Pushed) = tie_counter' - tie_counter]_vars

\* two entries that agree on f and on g wait in the frontier, told apart
\* by their ties
C26_Witness ==
    /\ pc = "iterating"
    /\ tie_counter >= 8
    /\ \E e, o \in open_heap :
         /\ e # o
         /\ e[1] = o[1] /\ e[2] = o[2]
         /\ e[3] < o[3]

(***************************************************************************)
(* C27. At every head of the loop, with any function as h: the start has   *)
(* no predecessor and g_score 0; every other recorded state s has a        *)
(* predecessor that is closed, of which s is a successor, and whose        *)
(* g_score is one less than that of s.  Hence following came_from from any *)
(* recorded state ends at the start after exactly g_score[s] steps, as     *)
(* _reconstruct_path would follow it.                                      *)
(***************************************************************************)
C27_PredecessorChain ==
    pc # "none" =>
        /\ DOMAIN came_from = DOMAIN g_score
        /\ start \in DOMAIN came_from
        /\ came_from[start] = None
        /\ g_score[start] = 0
        /\ \A s \in (DOMAIN came_from) \ {start} :
             /\ came_from[s] # None
             /\ came_from[s] \in closed
             /\ s \in Successors(came_from[s])
             /\ g_score[s] = g_score[came_from[s]] + 1
        /\ \A s \in DOMAIN came_from :
             LET path == _reconstruct_path(came_from, s)
             IN /\ Len(path) = g_score[s] + 1
                /\ path[1] = start
                /\ path[Len(path)] = s

\* a state whose first predecessor was replaced when its g_score was
\* lowered: it is recorded at a g below that of an entry still waiting
C27_Witness ==
    /\ pc = "iterating"
    /\ \E e \in open_heap :
         /\ e[2] > g_score[e[4]]
         /\ came_from[e[4]] \in closed
         /\ g_score[e[4]] = g_score[came_from[e[4]]] + 1
         /\ g_score[e[4]] >= 3

(***************************************************************************)
(* C28. Every move preserves inversion parity: for every board s and every *)
(* successor t of s.neighbors(), is_solvable(t) = is_solvable(s).  So the  *)
(* boards on every walk have the solvability of the board it began at.     *)
(***************************************************************************)
C28_MovesPreserveParity ==
    [][/\ is_solvable(made'.state) = is_solvable(made.state)
       /\ is_solvable(made'.state) = is_solvable(root)]_vars

\* a move up or down has changed the number of inversions by two
C28_Witness ==
    /\ made.raised = "none"
    /\ root = UNSOLVABLE
    /\ made.state[9] # 0
    /\ _inversion_count(made.state) = 3
    /\ is_solvable(made.state) = FALSE

====
